---- MODULE Spec2Model ----
(***************************************************************************)
(* A model of git-web-exporter (src/main.py): main() checks its arguments, *)
(* extract_repo_data() walks the commits oldest-first and builds one       *)
(* record per commit, render_repo_data() writes one page per record plus   *)
(* index.html.                                                             *)
(*                                                                         *)
(* Text (messages, titles, blob contents, paths, diffs, slugs) is a        *)
(* sequence of one-character strings, so that str.split, str.join,         *)
(* slugify and difflib.unified_diff are computed rather than assumed.      *)
(***************************************************************************)
EXTENDS Integers, Sequences, FiniteSets, TLC

\* The largest number of commits of a repository the model explores.
MaxCommits == 2

---------------------------------------------------------------------------
(* Text helpers: Python's str operations on sequences of characters.       *)

NL == "\n"

\* sep.join(parts) with sep = "\n" (lines 73 and 79).
RECURSIVE Join(_)
Join(parts) ==
    IF parts = <<>> THEN <<>>
    ELSE IF Len(parts) = 1 THEN parts[1]
    ELSE parts[1] \o <<NL>> \o Join(Tail(parts))

\* text.split("\n") (lines 31, 54, 59, 65, 66): always at least one piece.
RECURSIVE Split(_)
Split(text) ==
    IF \A k \in 1..Len(text) : text[k] # NL THEN <<text>>
    ELSE LET p == CHOOSE k \in 1..Len(text) :
                      /\ text[k] = NL
                      /\ \A m \in 1..(k - 1) : text[m] # NL
         IN <<SubSeq(text, 1, p - 1)>> \o Split(SubSeq(text, p + 1, Len(text)))

\* str(n) for the small numbers a hunk header holds.
Digit(n) == <<"0", "1", "2", "3", "4", "5", "6", "7", "8", "9">>[n + 1]

\* text.startswith(prefix).
StartsWith(text, prefix) ==
    /\ Len(text) >= Len(prefix)
    /\ SubSeq(text, 1, Len(prefix)) = prefix

\* text.endswith(suffix).
EndsWith(text, suffix) ==
    /\ Len(text) >= Len(suffix)
    /\ SubSeq(text, Len(text) - Len(suffix) + 1, Len(text)) = suffix

Reverse(s) == [k \in 1..Len(s) |-> s[Len(s) + 1 - k]]

---------------------------------------------------------------------------
(* slugify(title), python-slugify's defaults on ASCII text: lowercase,     *)
(* every character outside [-a-z0-9] becomes "-", runs of "-" collapse to  *)
(* one, leading and trailing "-" are stripped.                             *)

Lower(c) ==
    CASE c = "A" -> "a"
      [] c = "B" -> "b"
      [] c = "I" -> "i"
      [] OTHER -> c

SlugChars == {"a", "b", "c", "d", "e", "i", "n", "x", "y", "z", "-"}

Dashed(text) ==
    [k \in 1..Len(text) |->
        IF Lower(text[k]) \in SlugChars THEN Lower(text[k]) ELSE "-"]

RECURSIVE CollapseDashes(_)
CollapseDashes(text) ==
    IF Len(text) < 2 THEN text
    ELSE IF text[1] = "-" /\ text[2] = "-" THEN CollapseDashes(Tail(text))
    ELSE <<text[1]>> \o CollapseDashes(Tail(text))

RECURSIVE StripDashes(_)
StripDashes(text) ==
    IF text = <<>> THEN text
    ELSE IF text[1] = "-" THEN StripDashes(Tail(text))
    ELSE IF text[Len(text)] = "-" THEN StripDashes(SubSeq(text, 1, Len(text) - 1))
    ELSE text

slugify(title) == StripDashes(CollapseDashes(Dashed(title)))

DotHtml == <<".", "h", "t", "m", "l">>

\* slugify(title) + ".html" (lines 112 and 117).
html_filename(title) == slugify(title) \o DotHtml

---------------------------------------------------------------------------
(* difflib.unified_diff(a, b, fromfile, tofile) with its defaults (three   *)
(* lines of context, lineterm "\n"), for files of at most three lines: the *)
(* whole of both files is then one hunk.  a and b are sequences of lines.  *)

\* The common runs a[i..i+k-1] = b[j..j+k-1] inside a[alo..ahi], b[blo..bhi].
CommonRuns(a, b, alo, ahi, blo, bhi) ==
    {m \in (alo..ahi) \X (blo..bhi) \X (1..(ahi - alo + 1)) :
        /\ m[1] + m[3] - 1 <= ahi
        /\ m[2] + m[3] - 1 <= bhi
        /\ \A d \in 0..(m[3] - 1) : a[m[1] + d] = b[m[2] + d]}

\* SequenceMatcher.find_longest_match: the longest run; of those the one
\* starting earliest in a; of those the one starting earliest in b.
find_longest_match(a, b, alo, ahi, blo, bhi) ==
    LET runs == CommonRuns(a, b, alo, ahi, blo, bhi)
    IN CHOOSE m \in runs :
          \A o \in runs :
              \/ m[3] > o[3]
              \/ m[3] = o[3] /\ m[1] < o[1]
              \/ m[3] = o[3] /\ m[1] = o[1] /\ m[2] <= o[2]

Prefixed(mark, lines, lo, hi) ==
    [k \in 1..(hi - lo + 1) |-> <<mark>> \o lines[lo + k - 1]]

\* The hunk's lines: get_matching_blocks' recursion to the left and to the
\* right of the longest run, get_opcodes' tags written as unified_diff
\* writes them ("-" lines of a, then "+" lines of b, " " for equal lines).
RECURSIVE HunkLines(_, _, _, _, _, _)
HunkLines(a, b, alo, ahi, blo, bhi) ==
    IF CommonRuns(a, b, alo, ahi, blo, bhi) = {}
    THEN Prefixed("-", a, alo, ahi) \o Prefixed("+", b, blo, bhi)
    ELSE LET m == find_longest_match(a, b, alo, ahi, blo, bhi)
         IN HunkLines(a, b, alo, m[1] - 1, blo, m[2] - 1)
            \o Prefixed(" ", a, m[1], m[1] + m[3] - 1)
            \o HunkLines(a, b, m[1] + m[3], ahi, m[2] + m[3], bhi)

\* difflib._format_range_unified(start, stop).
format_range_unified(start, stop) ==
    LET length == stop - start
    IN IF length = 1 THEN <<Digit(start + 1)>>
       ELSE IF length = 0 THEN <<Digit(start), ",", Digit(length)>>
       ELSE <<Digit(start + 1), ",", Digit(length)>>

\* The lines unified_diff yields: nothing when a = b, else the two file
\* headers, the hunk header (each ending in the lineterm) and the hunk.
unified_diff(a, b, fromfile, tofile) ==
    IF a = b THEN <<>>
    ELSE << <<"-", "-", "-", " ">> \o fromfile \o <<NL>>,
            <<"+", "+", "+", " ">> \o tofile \o <<NL>>,
            <<"@", "@", " ", "-">> \o format_range_unified(0, Len(a))
                \o <<" ", "+">> \o format_range_unified(0, Len(b))
                \o <<" ", "@", "@", NL>> >>
         \o HunkLines(a, b, 1, Len(a), 1, Len(b))

---------------------------------------------------------------------------
(* The repository: GitPython's objects as far as extract_repo_data reads   *)
(* them.  A tree is a set of [path, data] entries, data being the blob's   *)
(* bytes; a commit is [hexsha, message, tree].                             *)

FTxt == <<"f", ".", "t", "x", "t">>
IPng == <<"i", ".", "p", "n", "g">>

\* The paths in the order git diff-tree lists them (sorted).
PathOrder == <<FTxt, IPng>>

\* A byte that is no valid UTF-8.
BadByte == "0xFF"

TextA == <<"a", NL>>
TextBA == <<"b", NL, "a", NL>>
TextBad == <<"a", BadByte>>
Image == <<"i", "i">>

\* The snapshots a commit may hold.  No two paths ever hold similar
\* content, so git's rename detection (GitPython passes -M) pairs nothing.
Trees ==
    { {},
      {[path |-> FTxt, data |-> TextA]},
      {[path |-> FTxt, data |-> TextBA]},
      {[path |-> FTxt, data |-> TextA], [path |-> IPng, data |-> Image]},
      {[path |-> IPng, data |-> Image]},
      {[path |-> FTxt, data |-> TextBad]} }

\* The commit messages: "Ab\n\ncd", "ab!\n" (its title slugifies like the
\* first one's), "Index\nx\ny\nz" (line 1 is not blank) and "ab" (one line,
\* no line break: what git commit-tree or GitPython's index.commit store).
Messages ==
    { <<"A", "b", NL, NL, "c", "d">>,
      <<"a", "b", "!", NL>>,
      <<"I", "n", "d", "e", "x", NL, "x", NL, "y", NL, "z">>,
      <<"a", "b">> }

\* The empty-tree sentinel of line 23.
EmptyTreeRev == <<"4b825dc642cb6eb9a060e54bf8d69288fbee4904", 0>>

\* The identifier of the k-th commit, oldest first.
Hexsha(k) == <<"commit", k>>

\* Every history of at most MaxCommits commits, oldest first.
Histories ==
    UNION { { [k \in 1..n |-> [hexsha |-> Hexsha(k),
                               message |-> c[k][1],
                               tree |-> c[k][2]]] :
              c \in [1..n -> Messages \X Trees] } : n \in 0..MaxCommits }

NoBlob == [present |-> FALSE, path |-> <<>>, data |-> <<>>]

\* The blob a tree holds at a path, or None.
BlobAt(tree, path) ==
    IF \E e \in tree : e.path = path
    THEN LET e == CHOOSE e \in tree : e.path = path
         IN [present |-> TRUE, path |-> path, data |-> e.data]
    ELSE NoBlob

\* Blob.mime_type: guessed from the file name, "text/plain" when unknown.
mime_type(blob) ==
    IF EndsWith(blob.path, <<".", "p", "n", "g">>)
    THEN <<"i", "m", "a", "g", "e", "/", "p", "n", "g">>
    ELSE <<"t", "e", "x", "t", "/", "p", "l", "a", "i", "n">>

\* bytes.decode("utf8") succeeds.
Utf8Valid(data) == \A k \in 1..Len(data) : data[k] # BadByte

---------------------------------------------------------------------------
VARIABLES
    argv,            \* sys.argv
    pathKind,        \* what the path names: "missing", "notrepo", "repo"
    history,         \* the repository's commits, oldest first
    before,          \* ./output before the run: [exists, files]
    pc,              \* where the run is
    exitCode,        \* the process's exit code, -1 while it runs
    stdout, stderr,  \* what was written to the two streams
    commits,         \* line 28: the commits still to process, in order
    rev,             \* lines 23 and 84: the previous revision
    data,            \* lines 24 and 75: the records
    extracted,       \* what extract_repo_data returned (for comparison)
    dirExists,       \* ./output exists
    files,           \* ./output: file name -> content
    toc,             \* line 109
    generate_index,  \* line 107
    page_no,         \* the loop of line 115: the record to render next
    run,             \* which call of render_repo_data this is
    firstFiles       \* ./output as the first call left it

vars == <<argv, pathKind, history, before, pc, exitCode, stdout, stderr, commits, rev,
          data, extracted, dirExists, files, toc, generate_index, page_no,
          run, firstFiles>>

envVars == <<argv, pathKind, history, before>>
extractVars == <<commits, rev, data, extracted>>
renderVars == <<dirExists, files, toc, generate_index, page_no, run, firstFiles>>

RepoArg == "repo"

\* What a file that is no page holds: the stylesheet, a file of an earlier run.
Asset(kind) ==
    [kind |-> kind, title |-> <<>>, hash |-> <<"", 0>>, body |-> <<>>,
     toc |-> <<>>, changes |-> <<>>]

StylesCss == <<"s", "t", "y", "l", "e", "s", ".", "c", "s", "s">>
IndexHtml == <<"i", "n", "d", "e", "x">> \o DotHtml
StaleName == <<"o", "l", "d">> \o DotHtml

\* ./output before the run: absent, or left by an earlier run (line 102
\* never clears it).
OutputsBefore ==
    { [exists |-> FALSE, files |-> << >>],
      [exists |-> TRUE, files |-> [n \in {StaleName} |-> Asset("stale")]] }

Init ==
    /\ argv \in {<<"main.py">>, <<"main.py", RepoArg>>, <<"main.py", RepoArg, "more">>}
    /\ pathKind \in {"missing", "notrepo", "repo"}
    /\ history \in Histories
    /\ (Len(argv) < 2 \/ pathKind # "repo") => history = <<>>
    /\ Len(argv) > 2 => Len(history) <= 1
    /\ before \in OutputsBefore
    /\ pc = "main"
    /\ exitCode = -1
    /\ stdout = <<>>
    /\ stderr = <<>>
    /\ commits = <<>>
    /\ rev = EmptyTreeRev
    /\ data = <<>>
    /\ extracted = <<>>
    /\ dirExists = before.exists
    /\ files = before.files
    /\ toc = <<>>
    /\ generate_index = FALSE
    /\ page_no = 1
    /\ run = 1
    /\ firstFiles = << >>

---------------------------------------------------------------------------
(* main(), lines 161-175.                                                  *)

Said(msg, arg) == [msg |-> msg, arg |-> arg]

\* An exception nobody catches: the traceback goes to standard error and
\* the interpreter exits with code 1.
Crashed(error) ==
    /\ pc' = "exit"
    /\ exitCode' = 1
    /\ stderr' = Append(stderr, Said("Traceback", error))

\* Line 162.
ArgMissing(args) == Len(args) < 2

PathNeverMissing(kind) == FALSE

\* Line 170: not repo_path.exists().
PathMissing(kind) == kind = "missing"

Main ==
    /\ pc = "main"
    /\ IF ArgMissing(argv)
       THEN /\ stdout' = Append(stdout, Said("Please provider a repo", <<>>))
            /\ pc' = "exit"
            /\ exitCode' = 1
            /\ UNCHANGED stderr
       ELSE IF PathMissing(pathKind)
       THEN /\ stderr' = Append(stderr, Said("doesn't exist", argv[2]))
            /\ pc' = "exit"
            /\ exitCode' = 1
            /\ UNCHANGED stdout
       ELSE /\ pc' = "open"
            /\ UNCHANGED <<stdout, stderr, exitCode>>
    /\ UNCHANGED <<envVars, extractVars, renderVars>>

---------------------------------------------------------------------------
(* extract_repo_data(), lines 13-86.                                       *)

\* repo.iter_commits(): git's order, newest first.
iter_commits(h) == Reverse(h)

\* The tree of a revision: line 23's empty tree, or a commit's.
TreeOf(revision, h) ==
    IF revision = EmptyTreeRev THEN {} ELSE h[revision[2]].tree

\* commit.diff(other), line 36: GitPython runs git diff-tree <commit> <other>,
\* so of every path that differs the a side is the blob in the commit itself
\* and the b side the blob in the revision it is compared with.
Diffs(commitTree, otherTree) ==
    LET Differs(path) == BlobAt(commitTree, path) # BlobAt(otherTree, path)
        changed == SelectSeq(PathOrder, Differs)
    IN [k \in 1..Len(changed) |->
           [a_blob |-> BlobAt(commitTree, changed[k]),
            b_blob |-> BlobAt(otherTree, changed[k])]]

IsText(blob) == StartsWith(mime_type(blob), <<"t", "e", "x", "t">>)

SkipsNothing(d) == FALSE

\* Lines 41-45: a present blob that is not text skips the path.
Skipped(d) ==
    \/ d.a_blob.present /\ ~IsText(d.a_blob)
    \/ d.b_blob.present /\ ~IsText(d.b_blob)

\* blob.data_stream.read().decode("utf8").split("\n"), lines 54, 59, 65, 66.
BlobLines(blob) == Split(blob.data)

\* Lines 47-69: the branch on which blob there is.
Original(d) ==
    IF ~d.a_blob.present /\ d.b_blob.present THEN <<>>
    ELSE BlobLines(d.a_blob)

Modified(d) ==
    IF ~d.a_blob.present /\ d.b_blob.present THEN BlobLines(d.b_blob)
    ELSE IF d.a_blob.present /\ ~d.b_blob.present THEN <<>>
    ELSE BlobLines(d.b_blob)

BlobPath(d) ==
    IF ~d.a_blob.present /\ d.b_blob.present THEN d.b_blob.path
    ELSE d.a_blob.path

\* The blobs lines 54-66 decode for a path that is not skipped.
Decodes(d) ==
    /\ d.a_blob.present => Utf8Valid(d.a_blob.data)
    /\ d.b_blob.present => Utf8Valid(d.b_blob.data)

DeltaSwapped(original, modified, blob_path) ==
    unified_diff(original, modified, blob_path, blob_path)

\* Line 71.
Delta(original, modified, blob_path) ==
    unified_diff(modified, original, blob_path, blob_path)

\* Line 73.
Change(d) ==
    [path |-> BlobPath(d),
     diff |-> Join(Delta(Original(d), Modified(d), BlobPath(d)))]

\* Lines 34-73: the changes of one commit.
RECURSIVE Changes(_)
Changes(diffs) ==
    IF diffs = <<>> THEN <<>>
    ELSE IF Skipped(Head(diffs)) THEN Changes(Tail(diffs))
    ELSE <<Change(Head(diffs))>> \o Changes(Tail(diffs))

\* Line 17: Repo(repo_path), then lines 23-28.
ExtractOpen ==
    /\ pc = "open"
    /\ IF pathKind = "repo"
       THEN /\ commits' = Reverse(iter_commits(history))
            /\ rev' = EmptyTreeRev
            /\ data' = <<>>
            /\ pc' = "extract"
            /\ UNCHANGED <<exitCode, stderr>>
       ELSE /\ Crashed(IF pathKind = "missing" THEN "NoSuchPathError"
                       ELSE "InvalidGitRepositoryError")
            /\ UNCHANGED <<commits, rev, data>>
    /\ UNCHANGED <<envVars, stdout, extracted, renderVars>>

ReturnsInLoop(queue, records) == queue = <<>> \/ records # <<>>

\* The loop of line 30 is over: line 86 is reached.
LoopDone(queue, records) == queue = <<>>

\* Line 31: title, _, *body = ... needs at least two pieces.
Unpacks(pieces) == Len(pieces) >= 2

\* One pass of the loop of lines 30-84.
ExtractCommit ==
    /\ pc = "extract"
    /\ ~LoopDone(commits, data)
    /\ LET commit == Head(commits)
           pieces == Split(commit.message)
           title == pieces[1]
           body == SubSeq(pieces, 3, Len(pieces))
           diffs == Diffs(commit.tree, TreeOf(rev, history))
       IN IF ~Unpacks(pieces)
          THEN /\ Crashed("ValueError")
               /\ UNCHANGED <<stdout, commits, rev, data>>
          ELSE /\ stdout' = Append(stdout, Said("Processing", title))
               /\ IF \E k \in 1..Len(diffs) :
                         ~Skipped(diffs[k]) /\ ~Decodes(diffs[k])
                  THEN /\ Crashed("UnicodeDecodeError")
                       /\ UNCHANGED <<commits, rev, data>>
                  ELSE /\ data' = Append(data,
                                     [title |-> title,
                                      hash |-> commit.hexsha,
                                      body |-> Join(body),
                                      changes |-> Changes(diffs)])
                       /\ rev' = commit.hexsha
                       /\ commits' = Tail(commits)
                       /\ UNCHANGED <<pc, exitCode, stderr>>
    /\ UNCHANGED <<envVars, extracted, renderVars>>

\* Line 86, and line 175's call.
ExtractReturn ==
    /\ pc = "extract"
    /\ LoopDone(commits, data)
    /\ extracted' = data
    /\ pc' = "render"
    /\ UNCHANGED <<envVars, exitCode, stdout, stderr, commits, rev, data, renderVars>>

---------------------------------------------------------------------------
(* render_repo_data(), lines 89-148.                                       *)

\* render_markdown, lines 151-158: the markdown library's HTML, kept as the
\* text inside a pair of tags.
render_markdown(md_content) ==
    <<"<", "m", "d", ">">> \o md_content \o <<"<", "/", "m", "d", ">">>

\* The backquote character (a TLA+ string cannot hold it).
Tick == "backquote"

\* Line 127: the diff between a line of three backquotes and " diff", and a
\* line of three backquotes.
Fenced(diff) ==
    <<Tick, Tick, Tick, " ", "d", "i", "f", "f", NL>> \o diff
        \o <<NL, Tick, Tick, Tick>>

\* Lines 111-113.
TocEntry(title) ==
    [title |-> title, path |-> <<".", "/">> \o html_filename(title)]

RECURSIVE BuildTocOncePerPath(_)
BuildTocOncePerPath(records) ==
    IF records = <<>> THEN <<>>
    ELSE LET rest == BuildTocOncePerPath(SubSeq(records, 1, Len(records) - 1))
             e == TocEntry(records[Len(records)].title)
         IN IF \E k \in 1..Len(rest) : rest[k].path = e.path
            THEN rest ELSE Append(rest, e)

\* Lines 109-113.
BuildToc(records) == [k \in 1..Len(records) |-> TocEntry(records[k].title)]

\* Lines 119-129: a new list, the record's own changes are only read.
RenderedChanges(page) ==
    [k \in 1..Len(page.changes) |->
        [path |-> page.changes[k].path,
         diff |-> render_markdown(Fenced(page.changes[k].diff))]]

\* template.render(**context), lines 131-140: the page, as what the
\* template is given.
template_render(page, contents) ==
    [kind |-> "page",
     title |-> page.title,
     hash |-> page.hash,
     body |-> render_markdown(page.body),
     toc |-> contents,
     changes |-> RenderedChanges(page)]

StoredBack(page, rendered) == [page EXCEPT !.changes = rendered]

\* The record after its page is rendered: lines 119-137 assign nothing to it.
PageAfterRender(page, rendered) == page

KeepFirst(fs, name, content) ==
    [n \in DOMAIN fs \cup {name} |-> IF n \in DOMAIN fs THEN fs[n] ELSE content]

\* open(path, "w") and write, lines 139-140 and 144-145; shutil.copy, line 105.
WriteFile(fs, name, content) ==
    [n \in DOMAIN fs \cup {name} |-> IF n = name THEN content ELSE fs[n]]

FlagKept(flag) == flag

\* Line 146.
FlagAfterIndex(flag) == FALSE

\* Lines 94-113.
RenderSetup ==
    /\ pc = "render"
    /\ dirExists' = TRUE
    /\ files' = WriteFile(files, StylesCss, Asset("css"))
    /\ generate_index' = TRUE
    /\ toc' = BuildToc(data)
    /\ page_no' = 1
    /\ pc' = "pages"
    /\ UNCHANGED <<envVars, exitCode, stdout, stderr, extractVars, run, firstFiles>>

\* One pass of the loop of lines 115-146.
RenderPage ==
    /\ pc = "pages"
    /\ page_no <= Len(data)
    /\ LET page == data[page_no]
           html == template_render(page, toc)
           written == WriteFile(files, html_filename(page.title), html)
       IN /\ files' = IF generate_index
                      THEN WriteFile(written, IndexHtml, html)
                      ELSE written
          /\ generate_index' = IF generate_index
                               THEN FlagAfterIndex(generate_index)
                               ELSE generate_index
          /\ data' = [data EXCEPT
                         ![page_no] = PageAfterRender(page, RenderedChanges(page))]
    /\ page_no' = page_no + 1
    /\ UNCHANGED <<envVars, pc, exitCode, stdout, stderr, commits, rev, extracted,
                   dirExists, toc, run, firstFiles>>

\* Line 148; after the call of line 175 main returns and the process ends.
RenderReturn ==
    /\ pc = "pages"
    /\ page_no > Len(data)
    /\ pc' = "done"
    /\ exitCode' = IF run = 1 THEN 0 ELSE exitCode
    /\ UNCHANGED <<envVars, stdout, stderr, extractVars, renderVars>>

\* render_repo_data called once more on the same list, ./output removed
\* before the call.
RenderAgain ==
    /\ pc = "done"
    /\ run = 1
    /\ run' = 2
    /\ firstFiles' = files
    /\ files' = << >>
    /\ dirExists' = FALSE
    /\ pc' = "render"
    /\ UNCHANGED <<envVars, exitCode, stdout, stderr, extractVars, toc,
                   generate_index, page_no>>

Next ==
    \/ Main
    \/ ExtractOpen
    \/ ExtractCommit
    \/ ExtractReturn
    \/ RenderSetup
    \/ RenderPage
    \/ RenderReturn
    \/ RenderAgain

Spec == Init /\ [][Next]_vars

---------------------------------------------------------------------------
(* What the properties below speak of.                                     *)

NumCommits == Len(history)

Rendering == pc \in {"render", "pages", "done"}

Raised(error) == \E k \in 1..Len(stderr) : stderr[k] = Said("Traceback", error)

\* The tree the k-th commit is compared with: its predecessor's, or none.
TreeBefore(k) == IF k = 1 THEN {} ELSE history[k - 1].tree

\* A blob's content as lines, no line at all for an absent blob.
ContentLines(tree, path) ==
    IF \E e \in tree : e.path = path
    THEN Split((CHOOSE e \in tree : e.path = path).data)
    ELSE <<>>

\* The hunk of a diff text: what follows the two file headers and the hunk
\* header, each of which the join leaves followed by an empty line.
HunkOf(diff) == LET lines == Split(diff) IN SubSeq(lines, 7, Len(lines))

\* One side of a unified diff: the lines marked " " or with the side's mark
\* ("-" for the "from" side, "+" for the "to" side), the mark removed.
SideOf(diff, mark) ==
    LET OnSide(line) == line # <<>> /\ line[1] \in {" ", mark}
        kept == SelectSeq(HunkOf(diff), OnSide)
    IN [k \in 1..Len(kept) |-> Tail(kept[k])]

FromSide(diff) == SideOf(diff, "-")
ToSide(diff) == SideOf(diff, "+")

\* The last record whose title slugifies like the k-th record's.
LastWithSlug(k) ==
    CHOOSE j \in k..Len(data) :
        /\ slugify(data[j].title) = slugify(data[k].title)
        /\ \A m \in (j + 1)..Len(data) :
               slugify(data[m].title) # slugify(data[k].title)

Collide(j, k) == j # k /\ slugify(data[j].title) = slugify(data[k].title)

IndexSlug == <<"i", "n", "d", "e", "x">>

\* No record after the first has a title that slugifies to "index".
NoLaterIndex == \A k \in 2..Len(data) : slugify(data[k].title) # IndexSlug

\* No record after the first has a title that slugifies like the first's.
NoLaterFirstSlug ==
    \A k \in 2..Len(data) : slugify(data[k].title) # slugify(data[1].title)

\* The paths of the k-th commit that changed and are text, in diff order.
ChangedTextPaths(k) ==
    LET Counts(path) ==
            /\ BlobAt(history[k].tree, path) # BlobAt(TreeBefore(k), path)
            /\ path # IPng
    IN SelectSeq(PathOrder, Counts)

---------------------------------------------------------------------------
(* C1: for a repository with N commits, whatever the commits' messages,    *)
(* extract_repo_data returns exactly N records, oldest first, the k-th     *)
(* record's hash being the k-th commit's identifier.  Stated for every run *)
(* on a repository in which no blob fails to decode: once extraction is    *)
(* over it has returned those N records.                                   *)
C1_ReturnsEveryCommit ==
    (/\ ~ArgMissing(argv)
     /\ pathKind = "repo"
     /\ pc \notin {"main", "open", "extract"}
     /\ ~Raised("UnicodeDecodeError"))
    => /\ Len(extracted) = NumCommits
       /\ \A k \in 1..NumCommits : extracted[k].hash = history[k].hexsha

(* C5: for every commit message the record's title is line 0 of the        *)
(* message and its body the lines from index 2 on, joined: every message   *)
(* is split so (the split never fails) and every record made holds the     *)
(* two.                                                                    *)
C5_TitleAndBodyOfEveryMessage ==
    /\ ~Raised("ValueError")
    /\ \A k \in 1..Len(data) :
           LET pieces == Split(history[k].message)
           IN /\ data[k].title = pieces[1]
              /\ data[k].body = Join(SubSeq(pieces, 3, Len(pieces)))

(* C2 as stated: after render_repo_data completes on a non-empty sequence  *)
(* of records, index.html and <slug(first title)>.html hold the same.      *)
C2_IndexEqualsFirstSlugFile ==
    (pc = "done" /\ data # <<>>)
    => files[IndexHtml] = files[html_filename(data[1].title)]

(* C2 amended: after render_repo_data completes on a non-empty sequence of *)
(* records, index.html holds the first record's page unless a later title  *)
(* slugifies to "index", and then holds the same as <slug(first            *)
(* title)>.html unless a later title slugifies like the first title.       *)
C2_IndexIsFirstPage ==
    (pc = "done" /\ data # <<>> /\ NoLaterIndex)
    => /\ files[IndexHtml] = template_render(data[1], toc)
       /\ NoLaterFirstSlug
              => files[IndexHtml] = files[html_filename(data[1].title)]

C2_Witness ==
    /\ pc = "done"
    /\ Len(data) >= 2
    /\ NoLaterIndex
    /\ NoLaterFirstSlug
    /\ data[2].title # data[1].title

(* C3: when several records' titles slugify alike, one file is left for    *)
(* that slug and it holds the page of the last of them; nothing is raised  *)
(* and no other file is written than one per slug, index.html and the      *)
(* stylesheet.                                                             *)
C3_LastRecordWinsSlug ==
    pc = "done"
    => /\ exitCode = 0
       /\ stderr = <<>>
       /\ \A k \in 1..Len(data) :
              files[html_filename(data[k].title)]
                  = template_render(data[LastWithSlug(k)], toc)
       /\ DOMAIN files
              = {html_filename(data[k].title) : k \in 1..Len(data)}
                \cup {StylesCss}
                \cup (IF data = <<>> THEN {} ELSE {IndexHtml})
                \cup (IF run = 1 THEN DOMAIN before.files ELSE {})

C3_Witness ==
    /\ pc = "done"
    /\ \E j, k \in 1..Len(data) :
           /\ j < k
           /\ Collide(j, k)
           /\ data[j].title # data[k].title
           /\ files[html_filename(data[j].title)] = template_render(data[k], toc)

C6_OnlyTextPathsGetEntries ==
    /\ pc \in {"extract", "render", "pages", "done"}
           => Len(data) + Len(commits) = NumCommits
    /\ \A k \in 1..Len(data) :
           [c \in 1..Len(data[k].changes) |-> data[k].changes[c].path]
               = ChangedTextPaths(k)

C6_Witness ==
    \E k \in 1..Len(data) :
        /\ data[k].changes = <<>>
        /\ BlobAt(history[k].tree, IPng) # BlobAt(TreeBefore(k), IPng)

(* C7: a second call of render_repo_data on the same records, each call    *)
(* into a fresh output directory, leaves the same files with the same      *)
(* content; rendering leaves the records as extraction returned them.      *)
C7_SecondRunWritesTheSame ==
    /\ Rendering => data = extracted
    /\ (pc = "done" /\ run = 2 /\ ~before.exists) => files = firstFiles

C7_Witness ==
    /\ pc = "done"
    /\ run = 2
    /\ ~before.exists
    /\ files = firstFiles
    /\ \E k \in 1..Len(data) : data[k].changes # <<>>

(* C8 as stated: the table of contents has one entry per record, in the    *)
(* records' order, each entry's path being slug(title) plus ".html".       *)
C8_TocPathIsFileName ==
    pc \in {"pages", "done"}
    => /\ Len(toc) = Len(data)
       /\ \A k \in 1..Len(data) :
              /\ toc[k].title = data[k].title
              /\ toc[k].path = html_filename(data[k].title)

(* C8 amended: the table of contents is built before any page is written,  *)
(* has one entry per record in the records' order, also when titles        *)
(* collide, each entry's path being "./" followed by slug(title) plus      *)
(* ".html", and every page written, index.html too, holds this table.      *)
C8_TocPathIsDotSlashFileName ==
    /\ pc \in {"pages", "done"}
       => /\ Len(toc) = Len(data)
          /\ \A k \in 1..Len(data) :
                 /\ toc[k].title = data[k].title
                 /\ toc[k].path = <<".", "/">> \o html_filename(data[k].title)
          /\ \A n \in DOMAIN files :
                 files[n].kind = "page" => files[n].toc = toc
    /\ pc = "render" => \A n \in DOMAIN files : files[n].kind # "page"

C8_Witness ==
    /\ pc = "done"
    /\ Len(toc) >= 2
    /\ toc[1].path = toc[2].path
    /\ toc[1].title # toc[2].title
    /\ files[IndexHtml].toc = toc

(* C9: without a repository argument main writes a message to standard     *)
(* output and exits with code 1; with a path that does not exist it writes *)
(* a message to standard error and exits with code 1; in both cases        *)
(* nothing is extracted, no progress line is printed and the output        *)
(* directory is left as it was.                                            *)
C9_UsageErrorsExitOne ==
    (ArgMissing(argv) \/ pathKind = "missing")
    => /\ pc \in {"main", "exit"}
       /\ data = <<>> /\ commits = <<>>
       /\ files = before.files /\ dirExists = before.exists
       /\ pc = "main" => (stdout = <<>> /\ stderr = <<>> /\ exitCode = -1)
       /\ pc = "exit"
          => /\ exitCode = 1
             /\ IF Len(argv) < 2
                THEN /\ stdout = <<Said("Please provider a repo", <<>>)>>
                     /\ stderr = <<>>
                ELSE /\ stdout = <<>>
                     /\ stderr = <<Said("doesn't exist", argv[2])>>

C9_Witness ==
    /\ pc = "exit"
    /\ Len(argv) >= 2
    /\ pathKind = "missing"
    /\ stderr # <<>>

(* C10: nothing in the output directory is created or written before the   *)
(* record of the last commit is appended; a run that aborts during         *)
(* extraction leaves the output directory as it was.                       *)
C10_ExtractionBeforeRendering ==
    /\ pc \in {"main", "open", "extract", "exit"}
           => (files = before.files /\ dirExists = before.exists)
    /\ (files # before.files \/ Rendering)
           => (Len(data) = NumCommits /\ commits = <<>>)

C10_Witness ==
    /\ pc = "exit"
    /\ Raised("UnicodeDecodeError")
    /\ Len(data) >= 1
    /\ files = before.files

====
